---- MODULE Spec2Model ----
(***************************************************************************)
(* A model of the Refine component (histogram view, edit log, replay of    *)
(* the log over a fetched histogram), of groupAutofetches from             *)
(* QuotaExceeded.js and of matchLessonHighlight as its test describes it.  *)
(*                                                                         *)
(* JavaScript values are modelled as follows.                              *)
(*   - a string is a TLA+ string; the value `undefined' read from a        *)
(*     missing key of a row or an edit is the reserved token Undefined;    *)
(*   - a count is a tagged record: a number, NaN or undefined, because     *)
(*     the code adds counts that may be undefined;                         *)
(*   - an object is a function from its keys to its values;                *)
(*   - an array is a sequence, indexed from 0 through At;                  *)
(*   - a JSON text is a record [empty, json]: whether the string has       *)
(*     length 0, and the array it serialises (undefined members dropped).  *)
(***************************************************************************)
EXTENDS Integers, Sequences, FiniteSets, TLC

VARIABLES
    mounted,    \* componentDidMount has run
    props,      \* this.props: selectedColumn, existingEdits, revision
    state,      \* this.state of Refine
    fetches,    \* every api.histogram call, in issue order: its column and status
    saved,      \* every payload handed to props.saveEdits, in call order
    event,      \* the handler that ran last, with its inputs
    call        \* the last call of a pure function: its arguments and result

vars == <<mounted, props, state, fetches, saved, event, call>>

(***************************************************************************)
(* Bounds of the model.                                                    *)
(***************************************************************************)
MaxHist == 3          \* rows of a histogram given to applySingleEdit
MaxLog == 2           \* edits of a log given to the replay loop
MaxCount == 2         \* largest count of a row given to applySingleEdit
MaxRevision == 1      \* revision bumps the parent makes
MaxSaves == 2         \* user edits handled
MaxAutofetches == 3   \* length of the list given to groupAutofetches
MaxWorkflowId == 3    \* workflow ids are 1..MaxWorkflowId
MaxHighlights == 2    \* length of the list given to matchLessonHighlight

Columns == {"c1", "c2"}
Values == {"a", "b", "c"}     \* column values given to applySingleEdit
TypedValues == {"a", "b"}     \* what a user types into a row
Undefined == "undefined"

(***************************************************************************)
(* JavaScript helpers.                                                     *)
(***************************************************************************)
JsNum(n) == [tag |-> "number", n |-> n]
JsNaN == [tag |-> "NaN", n |-> 0]
JsUndef == [tag |-> "undefined", n |-> 0]

\* x + y on counts: a number only when both are numbers.
JsAdd(x, y) ==
    IF x.tag = "number" /\ y.tag = "number" THEN JsNum(x.n + y.n) ELSE JsNaN

\* obj[key]: undefined when the object has no such key.
Get(obj, key) == IF key \in DOMAIN obj THEN obj[key] ELSE Undefined

\* obj.count
GetCount(obj) == IF "count" \in DOMAIN obj THEN obj["count"] ELSE JsUndef

\* arr[i], 0-based.
At(arr, i) == arr[i + 1]

\* arr.splice(start, 1): a negative start counts from the end.
Splice1(arr, start) ==
    LET n == Len(arr)
        s == IF start < 0 THEN (IF n + start < 0 THEN 0 ELSE n + start)
             ELSE (IF start > n THEN n ELSE start)
    IN  IF s >= n THEN arr
        ELSE SubSeq(arr, 1, s) \o SubSeq(arr, s + 2, n)

\* a slip: the row is pushed at the end
UnshiftAtEnd(arr, x) == Append(arr, x)

\* arr.unshift(x)
Unshift(arr, x) == <<x>> \o arr

\* {} with newEntry[column] = value; newEntry['count'] = count
NewEntry(column, value, count) == ("count" :> count) @@ (column :> value)

\* a slip: the merged row keeps the count it had
WithCountUnchanged(entry, count) == entry

\* Object.assign({}, entry) followed by entry['count'] = count
WithCount(entry, count) == ("count" :> count) @@ entry

EmptyObject == [k \in {} |-> Undefined]

(***************************************************************************)
(* Refine.applySingleEdit                                                  *)
(***************************************************************************)
\* for (i = from; i < hist.length; i++) if (hist[i][column] == val) break
RECURSIVE FindIndexFrom(_, _, _, _)
FindIndexFrom(hist, column, val, i) ==
    IF i >= Len(hist) THEN -1
    ELSE IF Get(At(hist, i), column) = val THEN i
    ELSE FindIndexFrom(hist, column, val, i + 1)

FindIndex(hist, column, val) == FindIndexFrom(hist, column, val, 0)

applySingleEdit(hist, edit) ==
    LET column == Get(edit, "column")
        fromIdx == FindIndex(hist, column, Get(edit, "fromVal"))
        \* Object.assign({}, newHist[-1]) is {}
        fromEntry == IF fromIdx = -1 THEN EmptyObject ELSE At(hist, fromIdx)
        newHist == Splice1(hist, fromIdx)
        toIdx == FindIndex(newHist, column, Get(edit, "toVal"))
    IN  IF toIdx = -1
        THEN Unshift(newHist, NewEntry(column, Get(edit, "toVal"), GetCount(fromEntry)))
        ELSE LET toEntry == At(newHist, toIdx)
             IN  Unshift(Splice1(newHist, toIdx),
                         WithCount(toEntry, JsAdd(GetCount(toEntry), GetCount(fromEntry))))

(***************************************************************************)
(* The edit log and its JSON text.                                         *)
(***************************************************************************)
MkEdit(column, fromVal, toVal, timestamp) ==
    [column |-> column, fromVal |-> fromVal, toVal |-> toVal, timestamp |-> timestamp]

\* JSON.stringify of an object drops the members whose value is undefined.
StringifyObject(obj) ==
    [k \in {k \in DOMAIN obj : k = "timestamp" \/ obj[k] # Undefined} |-> obj[k]]

JSONstringify(arr) ==
    [empty |-> FALSE, json |-> [i \in 1..Len(arr) |-> StringifyObject(arr[i])]]

JSONparse(text) == text.json

EmptyString == [empty |-> TRUE, json |-> <<>>]

\* JSON.parse(existingEdits.length > 0 ? existingEdits : '[]')
parseExistingEdits(existingEdits) ==
    JSONparse(IF ~existingEdits.empty THEN existingEdits ELSE JSONstringify(<<>>))

(***************************************************************************)
(* Refine.loadHistogram: the call, and the callback of its promise.        *)
(***************************************************************************)
\* api.histogram(this.props.wfModuleId, targetCol)
loadHistogram(pending, targetCol) ==
    Append(pending, [col |-> targetCol, status |-> "pending"])

\* for (i = 0; i < edits.length; i++) if (edits[i].column == selectedColumn) ...
RECURSIVE ReplayFrom(_, _, _, _)
ReplayFrom(editedHistogram, edits, selectedColumn, i) ==
    IF i >= Len(edits) THEN editedHistogram
    ELSE ReplayFrom(
            IF Get(At(edits, i), "column") = selectedColumn
            THEN applySingleEdit(editedHistogram, At(edits, i))
            ELSE editedHistogram,
            edits, selectedColumn, i + 1)

\* a slip: the loop applies the edits of every column
RECURSIVE ReplayEveryColumn(_, _, _)
ReplayEveryColumn(rows, edits, selectedColumn) ==
    IF edits = <<>> THEN rows
    ELSE ReplayEveryColumn(applySingleEdit(rows, Head(edits)), Tail(edits), selectedColumn)

ReplayEdits(rows, edits, selectedColumn) == ReplayFrom(rows, edits, selectedColumn, 0)

\* histogram.columns.map(cname => ({key, name, editable}))
GridColumns(columns) ==
    [i \in 1..Len(columns) |->
        [key |-> columns[i], name |-> columns[i], editable |-> ~(columns[i] = "count")]]

\* the callback: nextState built from this.state, this.props and the response
histogramThen(st, pr, histogram) ==
    LET editedHistogram == ReplayEdits(histogram.rows, st.edits, pr.selectedColumn)
    IN  [st EXCEPT !.histogramData = editedHistogram,
                   !.histogramNumRows = Len(editedHistogram),
                   !.histogramLoaded = TRUE,
                   !.histogramColumns = GridColumns(histogram.columns)]

(***************************************************************************)
(* The collaborators: the histogram API, the parent, the clock.            *)
(***************************************************************************)
\* the histograms the API answers with: one row per distinct value
ApiHistograms(col) ==
    {<<>>,
     <<NewEntry(col, "a", JsNum(1))>>,
     <<NewEntry(col, "a", JsNum(1)), NewEntry(col, "b", JsNum(2))>>,
     <<NewEntry(col, "b", JsNum(2)), NewEntry(col, "a", JsNum(1))>>}

ApiResponse(col) ==
    {[rows |-> rows, columns |-> <<col, "count">>] : rows \in ApiHistograms(col)}

\* Date.now(): each reading is later than the one before, and than the
\* timestamps of the log the component started with
Timestamps == {2 + Len(saved)}

\* what the parent persisted: the payload saved last, else what it started with
Persisted == IF Len(saved) > 0 THEN saved[Len(saved)] ELSE props.existingEdits

\* the existingEdits of a first render: nothing yet, or the log of an earlier
\* session
InitialExistingEdits ==
    {EmptyString,
     JSONstringify(<<MkEdit("c2", "b", "a", 0), MkEdit("c1", "a", "b", 1)>>)}

(***************************************************************************)
(* Refine: constructor, componentDidMount, componentWillReceiveProps.      *)
(***************************************************************************)
constructor(pr) ==
    [histogramLoaded |-> FALSE,
     histogramData |-> <<>>,
     histogramNumRows |-> 0,
     histogramColumns |-> <<>>,
     edits |-> parseExistingEdits(pr.existingEdits)]

Init ==
    /\ mounted = FALSE
    /\ props \in [selectedColumn : Columns,
                  existingEdits : InitialExistingEdits,
                  revision : {0}]
    /\ state = constructor(props)
    /\ fetches = <<>>
    /\ saved = <<>>
    /\ event = [op |-> "constructor"]
    /\ call = [fn |-> "none"]

componentDidMount ==
    /\ ~mounted
    /\ mounted' = TRUE
    /\ fetches' = loadHistogram(fetches, props.selectedColumn)
    /\ event' = [op |-> "componentDidMount"]
    /\ UNCHANGED <<props, state, saved, call>>

\* a slip: the bump resets the histogram and keeps the edit log
resetStateKeepsEdits(st, nextProps) ==
    [st EXCEPT !.histogramLoaded = FALSE,
               !.histogramData = <<>>,
               !.histogramNumRows = 0,
               !.histogramColumns = <<>>]

\* the setState of a revision bump
resetState(st, nextProps) ==
    [st EXCEPT !.histogramLoaded = FALSE,
               !.histogramData = <<>>,
               !.histogramNumRows = 0,
               !.histogramColumns = <<>>,
               !.edits = parseExistingEdits(nextProps.existingEdits)]

\* the props a parent may pass next: a revision bump hands back what was saved
\* and may select another column; a re-render passes the props again
NextProps ==
    {[selectedColumn |-> c, existingEdits |-> Persisted, revision |-> props.revision + 1] :
        c \in (IF props.revision < MaxRevision THEN Columns ELSE {})}
    \cup {props}

componentWillReceiveProps(nextProps) ==
    /\ mounted
    /\ IF nextProps.revision # props.revision
       THEN /\ state' = resetState(state, nextProps)
            /\ fetches' = loadHistogram(fetches, nextProps.selectedColumn)
       ELSE UNCHANGED <<state, fetches>>
    /\ props' = nextProps
    /\ event' = [op |-> "componentWillReceiveProps"]
    /\ UNCHANGED <<mounted, saved, call>>

(***************************************************************************)
(* The promise of a histogram call settles.                                *)
(***************************************************************************)
Pending == {id \in 1..Len(fetches) : fetches[id].status = "pending"}

histogramResolved(id, histogram) ==
    /\ id \in Pending
    /\ state' = histogramThen(state, props, histogram)
    /\ fetches' = [fetches EXCEPT ![id].status = "done"]
    /\ event' = [op |-> "histogramResolved", id |-> id, histogram |-> histogram]
    /\ UNCHANGED <<mounted, props, saved, call>>

\* a rejection is not handled: nothing runs
histogramRejected(id) ==
    /\ id \in Pending
    /\ fetches' = [fetches EXCEPT ![id].status = "failed"]
    /\ event' = [op |-> "histogramRejected", id |-> id]
    /\ UNCHANGED <<mounted, props, state, saved, call>>

(***************************************************************************)
(* Refine.handleValueChange and Refine.handleGridRowsUpdated.              *)
(***************************************************************************)
saveEdits(payload) == saved' = Append(saved, payload)

\* a slip: the handler also takes the new log as its own
handleValueChangeKeepsLog(changeData, now) ==
    /\ mounted /\ state.histogramLoaded
    /\ Len(saved) < MaxSaves
    /\ LET nextEdits == Append(state.edits,
                               MkEdit(props.selectedColumn, changeData.fromVal,
                                      changeData.toVal, now))
       IN  /\ saveEdits(JSONstringify(nextEdits))
           /\ state' = [state EXCEPT !.edits = JSONparse(JSONstringify(nextEdits))]
    /\ event' = [op |-> "handleValueChange", changeData |-> changeData, now |-> now]
    /\ UNCHANGED <<mounted, props, fetches, call>>

handleValueChange(changeData, now) ==
    /\ mounted /\ state.histogramLoaded
    /\ Len(saved) < MaxSaves
    /\ LET nextEdits == Append(state.edits,
                               MkEdit(props.selectedColumn, changeData.fromVal,
                                      changeData.toVal, now))
       IN  saveEdits(JSONstringify(nextEdits))
    /\ event' = [op |-> "handleValueChange", changeData |-> changeData, now |-> now]
    /\ UNCHANGED <<mounted, props, state, fetches, call>>

\* an EditRow of the rendered histogram: Enter sends its initial and current value
RowValues == {Get(state.histogramData[i], props.selectedColumn) :
                 i \in 1..Len(state.histogramData)}

ChangeData ==
    {[fromVal |-> f, toVal |-> t] : f \in RowValues, t \in TypedValues \cup RowValues}

\* the grid's handler; the grid shows the loaded histogram (renderHistogram)
handleGridRowsUpdated(data, now) ==
    /\ mounted /\ state.histogramLoaded
    /\ Len(saved) < MaxSaves
    /\ LET changeCol == data.cellKey
       IN  IF changeCol = "count"
           THEN /\ UNCHANGED saved
                /\ event' = [op |-> "handleGridRowsUpdated", returned |-> "count"]
           ELSE LET fromVal == Get(data.fromRowData, changeCol)
                    toVal == data.updated
                IN  IF fromVal = toVal
                    THEN /\ UNCHANGED saved
                         /\ event' = [op |-> "handleGridRowsUpdated", returned |-> "same"]
                    ELSE /\ saveEdits(JSONstringify(
                                Append(state.edits, MkEdit(changeCol, fromVal, toVal, now))))
                         /\ event' = [op |-> "handleGridRowsUpdated", returned |-> "saved",
                                      data |-> data, now |-> now]
    /\ UNCHANGED <<mounted, props, state, fetches, call>>

\* a cell update of the grid: a column of the grid, a row of it, the new value
GridUpdates ==
    {[cellKey |-> state.histogramColumns[k].key, fromRowData |-> state.histogramData[i],
      updated |-> v] :
        k \in 1..Len(state.histogramColumns),
        i \in 1..Len(state.histogramData),
        v \in TypedValues}

Next ==
    \/ componentDidMount
    \/ \E nextProps \in NextProps : componentWillReceiveProps(nextProps)
    \/ \E id \in Pending : \E histogram \in ApiResponse(fetches[id].col) :
          histogramResolved(id, histogram)
    \/ \E id \in Pending : histogramRejected(id)
    \/ \E changeData \in ChangeData : \E now \in Timestamps :
          handleValueChange(changeData, now)
    \/ \E data \in GridUpdates : \E now \in Timestamps :
          handleGridRowsUpdated(data, now)

Spec == Init /\ [][Next]_vars

(***************************************************************************)
(* Definitions the properties are stated with.                             *)
(***************************************************************************)
IsPrefix(s, t) == Len(s) <= Len(t) /\ SubSeq(t, 1, Len(s)) = s

Front(s) == SubSeq(s, 1, Len(s) - 1)

Last(s) == s[Len(s)]

\* the edits of a log that are on a column, in log order
EditsOn(edits, column) == SelectSeq(edits, LAMBDA e : Get(e, "column") = column)

\* the edits applied one after the other, the oldest first
RECURSIVE ApplyAll(_, _)
ApplyAll(rows, edits) ==
    IF edits = <<>> THEN rows
    ELSE applySingleEdit(ApplyAll(rows, Front(edits)), Last(edits))

\* C2: when a histogram fetch completes, histogramData is the fetched rows with
\* the edits of the log on the selected column applied in log order, each to
\* the result of the one before, edits on other columns skipped, and
\* histogramLoaded is true.
C2_FetchReplaysLog ==
    event.op = "histogramResolved" =>
        /\ state.histogramLoaded
        /\ state.histogramData =
              ApplyAll(event.histogram.rows, EditsOn(state.edits, props.selectedColumn))

\* a fetch completed and replayed two edits on the selected column, the second
\* one on the value the first produced, past an edit on the other column
C2_Witness ==
    /\ event.op = "histogramResolved"
    /\ Len(EditsOn(state.edits, props.selectedColumn)) >= 2
    /\ Len(EditsOn(state.edits, props.selectedColumn)) < Len(state.edits)
    /\ state.histogramData # event.histogram.rows

\* C4: every payload passed to saveEdits has the payload passed before it as a
\* prefix.
C4_SavedLogAppendOnly ==
    \A i \in 1..(Len(saved) - 1) : IsPrefix(JSONparse(saved[i]), JSONparse(saved[i + 1]))

\* the last step ran an edit handler that saved
EditSaved(ev) ==
    \/ ev.op = "handleValueChange"
    \/ ev.op = "handleGridRowsUpdated" /\ ev.returned = "saved"

EditColumn(ev, pr) ==
    IF ev.op = "handleValueChange" THEN pr.selectedColumn ELSE ev.data.cellKey

EditFromVal(ev) ==
    IF ev.op = "handleValueChange" THEN ev.changeData.fromVal
    ELSE Get(ev.data.fromRowData, ev.data.cellKey)

EditToVal(ev) ==
    IF ev.op = "handleValueChange" THEN ev.changeData.toVal ELSE ev.data.updated

\* C5: an edit handled by handleValueChange, or by handleGridRowsUpdated for a
\* column other than count and a changed value, calls saveEdits once, with the
\* component's edit log followed by one new record of the edit's column,
\* fromVal, toVal and timestamp; the component's state is left as it was.
C5_EditSavesLogPlusOne ==
    [][EditSaved(event') =>
        /\ Len(saved') = Len(saved) + 1
        /\ Front(saved') = saved
        /\ LET log == JSONparse(Last(saved'))
           IN  /\ Len(log) = Len(state.edits) + 1
               /\ Front(log) = state.edits
               /\ Get(Last(log), "column") = EditColumn(event', props)
               /\ Get(Last(log), "fromVal") = EditFromVal(event')
               /\ Get(Last(log), "toVal") = EditToVal(event')
               /\ Last(log)["timestamp"] = event'.now
               /\ DOMAIN Last(log) \subseteq {"column", "fromVal", "toVal", "timestamp"}
        /\ state' = state]_vars

\* an edit was saved on top of a log that already held an edit
C5_Witness ==
    /\ EditSaved(event)
    /\ Len(state.edits) >= 1
    /\ Len(saved) >= 1
    /\ Len(JSONparse(Last(saved))) = Len(state.edits) + 1

\* C6: props with another revision reset the histogram state, replace the edit
\* log with the parsed existingEdits of the new props (the empty log for an
\* empty string) and issue one fetch for the new selected column; props with
\* the same revision issue no fetch and leave the state as it was.
C6_RevisionBumpReloads ==
    [][event'.op = "componentWillReceiveProps" =>
        IF props'.revision # props.revision
        THEN /\ state'.histogramLoaded = FALSE
             /\ state'.histogramData = <<>>
             /\ state'.histogramNumRows = 0
             /\ state'.edits = (IF props'.existingEdits.empty THEN <<>>
                                ELSE props'.existingEdits.json)
             /\ Len(fetches') = Len(fetches) + 1
             /\ Front(fetches') = fetches
             /\ Last(fetches') = [col |-> props'.selectedColumn, status |-> "pending"]
        ELSE /\ state' = state
             /\ fetches' = fetches]_vars

\* a bump to another column arrived over a loaded histogram and brought a log
\* that differs from the one the component held
C6_Witness ==
    /\ event.op = "componentWillReceiveProps"
    /\ props.revision > 0
    /\ Len(fetches) >= 2
    /\ fetches[Len(fetches)].col # fetches[Len(fetches) - 1].col
    /\ fetches[Len(fetches) - 1].status = "done"
    /\ state.edits # <<>>
    /\ ~state.histogramLoaded

\* C8: a fetch that completes after a fetch issued later than it has completed
\* does not overwrite the histogram the later fetch produced.
C8_StaleFetchDoesNotOverwrite ==
    [][(/\ event'.op = "histogramResolved"
        /\ event'.id < Len(fetches)
        /\ fetches[Len(fetches)].status = "done")
       => state'.histogramData = state.histogramData]_vars

(***************************************************************************)
(* applySingleEdit and the replay loop as functions: calls with arguments  *)
(* drawn from bounded sets.                                                *)
(***************************************************************************)
InitCalls ==
    /\ Init
    /\ props.selectedColumn = "c1"
    /\ props.existingEdits = EmptyString

ArgRows == {NewEntry("c1", v, JsNum(n)) : v \in Values, n \in 1..MaxCount}

\* any list of n rows: a value may occur in more than one row
ArgHists(n) == [1..n -> ArgRows]

ArgEdits == {MkEdit(c, f, t, 0) : c \in Columns, f \in Values, t \in Values}

ArgLogs(n) == [1..n -> ArgEdits]

\* calls are independent of each other: one call is drawn per behaviour
CallApplySingleEdit ==
    /\ call.fn = "none"
    /\ \E n \in 0..MaxHist : \E hist \in ArgHists(n) : \E edit \in ArgEdits :
          call' = [fn |-> "applySingleEdit", hist |-> hist, edit |-> edit,
                   ret |-> applySingleEdit(hist, edit)]
    /\ UNCHANGED <<mounted, props, state, fetches, saved, event>>

CallReplayEdits ==
    /\ call.fn = "none"
    /\ \E col \in Columns : \E rows \in ApiHistograms(col) :
       \E n \in 0..MaxLog : \E edits \in ArgLogs(n) : \E selectedColumn \in Columns :
          call' = [fn |-> "ReplayEdits", rows |-> rows, edits |-> edits,
                   selectedColumn |-> selectedColumn,
                   ret |-> ReplayEdits(rows, edits, selectedColumn)]
    /\ UNCHANGED <<mounted, props, state, fetches, saved, event>>

NextApply == CallApplySingleEdit \/ CallReplayEdits

SpecApply == InitCalls /\ [][NextApply]_vars

\* the rows of a histogram whose value in the edit's column is v
Matching(hist, edit, v) ==
    {i \in 1..Len(hist) : Get(hist[i], Get(edit, "column")) = v}

FromPresent(hist, edit) == Matching(hist, edit, Get(edit, "fromVal")) # {}

Min(S) == CHOOSE i \in S : \A j \in S : i <= j

Without(seq, i) == [j \in 1..(Len(seq) - 1) |-> IF j < i THEN seq[j] ELSE seq[j + 1]]

\* the sum of the counts of a histogram
RECURSIVE Total(_)
Total(hist) ==
    IF hist = <<>> THEN JsNum(0) ELSE JsAdd(Total(Front(hist)), GetCount(Last(hist)))

\* C1: when a row matches fromVal, the result starts with a row of value toVal
\* whose count is that of the first fromVal row plus that of the first
\* remaining toVal row (the fromVal row's count alone when there is none),
\* followed by the other rows in their order, only those two rows removed.
C1_EditMergesAtFront ==
    (call.fn = "applySingleEdit" /\ FromPresent(call.hist, call.edit)) =>
        LET edit == call.edit
            column == Get(edit, "column")
            f == Min(Matching(call.hist, edit, Get(edit, "fromVal")))
            rest == Without(call.hist, f)
            tos == Matching(rest, edit, Get(edit, "toVal"))
        IN  /\ Len(call.ret) >= 1
            /\ Get(call.ret[1], column) = Get(edit, "toVal")
            /\ IF tos = {}
               THEN /\ GetCount(call.ret[1]) = GetCount(call.hist[f])
                    /\ Tail(call.ret) = rest
               ELSE /\ GetCount(call.ret[1]) =
                          JsAdd(GetCount(call.hist[f]), GetCount(rest[Min(tos)]))
                    /\ Tail(call.ret) = Without(rest, Min(tos))

\* the first row matches toVal and two later rows match fromVal: the first of
\* them is merged into the toVal row and the second stays behind the merged row
C1_Witness ==
    /\ call.fn = "applySingleEdit"
    /\ Get(call.edit, "fromVal") # Get(call.edit, "toVal")
    /\ Cardinality(Matching(call.hist, call.edit, Get(call.edit, "fromVal"))) = 2
    /\ Cardinality(Matching(call.hist, call.edit, Get(call.edit, "toVal"))) = 1
    /\ Min(Matching(call.hist, call.edit, Get(call.edit, "toVal"))) = 1
    /\ Len(call.ret) = Len(call.hist) - 1
    /\ Len(call.ret) >= 2

\* C3: when no row matches fromVal, applySingleEdit returns its input: the same
\* rows, counts and order.
C3_AbsentFromValIsNoOp ==
    (call.fn = "applySingleEdit" /\ ~FromPresent(call.hist, call.edit)) =>
        call.ret = call.hist

\* every edit of the list finds its fromVal when it is applied
RECURSIVE AllPresent(_, _)
AllPresent(rows, edits) ==
    \/ edits = <<>>
    \/ /\ FromPresent(rows, Head(edits))
       /\ AllPresent(applySingleEdit(rows, Head(edits)), Tail(edits))

\* C9: applySingleEdit keeps the total count when a row matches fromVal, and a
\* replay in which every applied edit finds its fromVal keeps the total count
\* of the fetched rows.
C9_TotalCountConserved ==
    /\ (call.fn = "applySingleEdit" /\ FromPresent(call.hist, call.edit)) =>
          Total(call.ret) = Total(call.hist)
    /\ (call.fn = "ReplayEdits"
        /\ AllPresent(call.rows, EditsOn(call.edits, call.selectedColumn))) =>
          Total(call.ret) = Total(call.rows)

\* a replay applied two edits, each finding its fromVal, and merged two rows
C9_Witness ==
    /\ call.fn = "ReplayEdits"
    /\ Len(EditsOn(call.edits, call.selectedColumn)) >= 2
    /\ AllPresent(call.rows, EditsOn(call.edits, call.selectedColumn))
    /\ Len(call.rows) = 2
    /\ Len(call.ret) = 1
    /\ GetCount(call.ret[1]) = JsNum(3)

(***************************************************************************)
(* groupAutofetches (QuotaExceeded.js)                                     *)
(***************************************************************************)
SecondsPerDay == 86400

\* fetch intervals in seconds: twice a day, once a day
FetchIntervals == {43200, 86400}

WorkflowIds == 1..MaxWorkflowId

WorkflowNames == {"Alpha", "Beta"}

\* a.localeCompare(b) on the names of the model: negative, zero or positive
NameRank(name) == IF name = "Alpha" THEN 1 ELSE 2

localeCompare(a, b) == NameRank(a) - NameRank(b)

EmptyGroups == [k \in {} |-> 0]

\* for (const autofetch of autofetches) { ... }
RECURSIVE GroupFrom(_, _, _)
GroupFrom(groups, autofetches, i) ==
    IF i >= Len(autofetches) THEN groups
    ELSE LET autofetch == At(autofetches, i)
             groupId == autofetch.workflow.id
             created == IF groupId \in DOMAIN groups THEN groups
                        ELSE groups @@ (groupId :> [workflow |-> autofetch.workflow,
                                                    nFetchesPerDay |-> 0,
                                                    autofetches |-> <<>>])
             group == created[groupId]
             added == [group EXCEPT
                          !.nFetchesPerDay = @ + SecondsPerDay \div autofetch.wfModule.fetchInterval,
                          !.autofetches = Append(@, autofetch)]
         IN  GroupFrom([created EXCEPT ![groupId] = added], autofetches, i + 1)

\* Object.values(groups): integer keys come in ascending order
RECURSIVE ObjectValues(_)
ObjectValues(groups) ==
    IF DOMAIN groups = {} THEN <<>>
    ELSE LET k == CHOOSE k \in DOMAIN groups : \A j \in DOMAIN groups : k <= j
         IN  <<groups[k]>> \o ObjectValues([j \in DOMAIN groups \ {k} |-> groups[j]])

\* a slip: a and b exchanged in the difference
compareGroupsAscending(a, b) ==
    IF a.nFetchesPerDay - b.nFetchesPerDay # 0
    THEN a.nFetchesPerDay - b.nFetchesPerDay
    ELSE localeCompare(a.workflow.name, b.workflow.name)

\* (a, b) => b.nFetchesPerDay - a.nFetchesPerDay || a.workflow.name.localeCompare(b.workflow.name)
compareGroups(a, b) ==
    IF b.nFetchesPerDay - a.nFetchesPerDay # 0
    THEN b.nFetchesPerDay - a.nFetchesPerDay
    ELSE localeCompare(a.workflow.name, b.workflow.name)

\* Array.prototype.sort: stable, x stays ahead of the elements it compares <= to
RECURSIVE Insert(_, _)
Insert(x, sorted) ==
    IF sorted = <<>> THEN <<x>>
    ELSE IF compareGroups(x, Head(sorted)) <= 0 THEN <<x>> \o sorted
    ELSE <<Head(sorted)>> \o Insert(x, Tail(sorted))

RECURSIVE Sort(_)
Sort(arr) == IF arr = <<>> THEN <<>> ELSE Insert(Head(arr), Sort(Tail(arr)))

groupAutofetches(autofetches) ==
    Sort(ObjectValues(GroupFrom(EmptyGroups, autofetches, 0)))

\* an autofetch: its workflow, and its step with the step's fetch interval
Autofetch(names, workflowId, stepId, fetchInterval) ==
    [workflow |-> [id |-> workflowId, name |-> names[workflowId]],
     wfModule |-> [id |-> stepId, fetchInterval |-> fetchInterval]]

\* lists of n autofetches; step ids are distinct, a workflow has one name
ArgAutofetches(n, names) ==
    {[i \in 1..n |-> Autofetch(names, picks[i][1], i, picks[i][2])] :
        picks \in [1..n -> WorkflowIds \X FetchIntervals]}

CallGroupAutofetches ==
    /\ call.fn = "none"
    /\ \E n \in 0..MaxAutofetches : \E names \in [WorkflowIds -> WorkflowNames] :
       \E autofetches \in ArgAutofetches(n, names) :
          call' = [fn |-> "groupAutofetches", autofetches |-> autofetches,
                   ret |-> groupAutofetches(autofetches)]
    /\ UNCHANGED <<mounted, props, state, fetches, saved, event>>

SpecGroup == InitCalls /\ [][CallGroupAutofetches]_vars

RECURSIVE SumPerDay(_)
SumPerDay(autofetches) ==
    IF autofetches = <<>> THEN 0
    ELSE SecondsPerDay \div Head(autofetches).wfModule.fetchInterval
         + SumPerDay(Tail(autofetches))

\* C10: one group per distinct workflow id of the input; a group holds the
\* autofetches of its workflow, in input order, and no others; its
\* nFetchesPerDay is the sum of 86400 / fetchInterval over them; the groups are
\* in descending order of nFetchesPerDay, ties in ascending order of name.
C10_GroupsByWorkflowSorted ==
    call.fn = "groupAutofetches" =>
        LET input == call.autofetches
            groups == call.ret
            ids == {input[i].workflow.id : i \in 1..Len(input)}
        IN  /\ Len(groups) = Cardinality(ids)
            /\ {groups[g].workflow.id : g \in 1..Len(groups)} = ids
            /\ \A g \in 1..Len(groups) :
                  /\ groups[g].autofetches =
                        SelectSeq(input, LAMBDA a : a.workflow.id = groups[g].workflow.id)
                  /\ groups[g].nFetchesPerDay = SumPerDay(groups[g].autofetches)
            /\ \A g \in 1..Len(groups) : \A h \in 1..Len(groups) :
                  g < h =>
                     \/ groups[g].nFetchesPerDay > groups[h].nFetchesPerDay
                     \/ /\ groups[g].nFetchesPerDay = groups[h].nFetchesPerDay
                        /\ NameRank(groups[g].workflow.name) <= NameRank(groups[h].workflow.name)

\* three autofetches of two workflows, the two of one workflow apart in the
\* input, make two groups that tie on nFetchesPerDay and differ in name, the
\* workflow met first in the input coming second
C10_Witness ==
    /\ call.fn = "groupAutofetches"
    /\ Len(call.autofetches) = 3
    /\ Len(call.ret) = 2
    /\ call.ret[1].nFetchesPerDay = call.ret[2].nFetchesPerDay
    /\ call.ret[1].workflow.name # call.ret[2].workflow.name
    /\ call.ret[2].workflow.id = call.autofetches[1].workflow.id
    /\ call.autofetches[1].workflow.id = call.autofetches[3].workflow.id

(***************************************************************************)
(* matchLessonHighlight, as LessonHighlight.test.js describes it.          *)
(***************************************************************************)
\* a slip: the element must equal the target
exactMatch(element, target) == element = target

\* every key of the element carries the value the target has for it
partialMatch(element, target) ==
    \A key \in DOMAIN element : key \in DOMAIN target /\ target[key] = element[key]

\* highlights.some(element => partialMatch(element, target))
RECURSIVE SomeFrom(_, _, _)
SomeFrom(highlights, target, i) ==
    IF i >= Len(highlights) THEN FALSE
    ELSE IF partialMatch(At(highlights, i), target) THEN TRUE
    ELSE SomeFrom(highlights, target, i + 1)

matchLessonHighlight(highlights, target) == SomeFrom(highlights, target, 0)

\* an object with the keys that are given (a key is given as <<value>>)
Member(key, given) == IF given = <<>> THEN EmptyObject ELSE (key :> given[1])

Highlight(type, name, index) ==
    Member("type", type) @@ Member("name", name) @@ Member("index", index)

ArgHighlight ==
    {Highlight(type, name, index) :
        type \in {<<>>, <<"Module">>, <<"EditableNotes">>},
        name \in {<<>>, <<"Foo">>, <<"Bar">>},
        index \in {<<>>, <<2>>}}

ArgHighlights(n) == [1..n -> ArgHighlight]

CallMatchLessonHighlight ==
    /\ call.fn = "none"
    /\ \E n \in 0..MaxHighlights : \E highlights \in ArgHighlights(n) :
       \E target \in ArgHighlight :
          call' = [fn |-> "matchLessonHighlight", highlights |-> highlights,
                   target |-> target,
                   ret |-> matchLessonHighlight(highlights, target)]
    /\ UNCHANGED <<mounted, props, state, fetches, saved, event>>

SpecMatch == InitCalls /\ [][CallMatchLessonHighlight]_vars

\* the expectations of 'should match using deepEqual on array elements' and of
\* 'should partial-match'
TestExpectations ==
    LET valid == <<Highlight(<<"Module">>, <<"Foo">>, <<2>>),
                   Highlight(<<"EditableNotes">>, <<>>, <<>>)>>
        partial == <<Highlight(<<"Module">>, <<"Foo">>, <<>>),
                     Highlight(<<"EditableNotes">>, <<>>, <<>>)>>
    IN  /\ matchLessonHighlight(valid, Highlight(<<"Module">>, <<"Foo">>, <<2>>)) = TRUE
        /\ matchLessonHighlight(valid, Highlight(<<"Module">>, <<"Bar">>, <<2>>)) = FALSE
        /\ matchLessonHighlight(valid, Highlight(<<"EditableNotes">>, <<>>, <<>>)) = TRUE
        /\ matchLessonHighlight(valid, Highlight(<<"XditableNotes">>, <<>>, <<>>)) = FALSE
        /\ matchLessonHighlight(partial, Highlight(<<"Module">>, <<"Foo">>, <<2>>)) = TRUE

\* C7: matchLessonHighlight is true exactly when some element of the list has
\* only keys whose value equals the target's value for the key (the target may
\* have more keys), and false when no element is such; the test's expectations
\* are met.
C7_MatchIsSomePartialMatch ==
    /\ TestExpectations
    /\ call.fn = "matchLessonHighlight" =>
          (call.ret = TRUE <=>
              \E i \in 1..Len(call.highlights) :
                 \A key \in DOMAIN call.highlights[i] :
                    /\ key \in DOMAIN call.target
                    /\ call.target[key] = call.highlights[i][key])

\* the second element of a list matched a target that has a key the element
\* lacks, the first element not matching
C7_Witness ==
    /\ call.fn = "matchLessonHighlight"
    /\ call.ret = TRUE
    /\ Len(call.highlights) = 2
    /\ ~partialMatch(call.highlights[1], call.target)
    /\ DOMAIN call.highlights[2] # {}
    /\ DOMAIN call.highlights[2] # DOMAIN call.target

====
